---- MODULE Spec2Model ----
(***************************************************************************)
(* vite-plugin-optimize-videos: the concurrency-enabled plugin of          *)
(* src/index.ts (second module of the file, lines 254-528).                *)
(*                                                                         *)
(* Paths, extensions and patterns are strings; file contents are strings   *)
(* too ("" is "no such file").  One action is one continuation of the      *)
(* event loop: the completion of an awaited operation followed by the      *)
(* synchronous code up to the next await.                                  *)
(***************************************************************************)
EXTENDS Integers, Sequences, FiniteSets, TLC

VARIABLES
    distDir,      \* closure variable distDir ("" while configResolved has not run)
    options,      \* the options object handed to optimizeVideos
    concurrency,  \* const { concurrency = 4 } = options
    fs,           \* the file system: path -> content, Absent when there is no file
    cb,           \* position of closeBundle
    videoFiles,   \* const videoFiles = await findVideoFiles(distDir, exclude)
    chunks,       \* const chunks = []
    cur,          \* index of the chunk whose Promise.all closeBundle awaits
    pc,           \* position of processFile(f) for every candidate f
    promise,      \* state of the promise returned by processFile(f)
    buf,          \* the buffer readFile(tempOutputPath) returned to processFile(f)
    error,        \* the operation whose error the catch block of processFile(f) caught
    reports,      \* per candidate, the success and error reports written to the console
    banner,       \* number of completion banners written to the console
    entryName,    \* entry.name, the argument fileName of isVideoFile (SpecExclude)
    included,     \* value returned by isVideoFile (SpecExclude)
    inputPath,    \* argument inputPath of optimizeVideo (SpecEngine)
    command,      \* the ffmpeg command optimizeVideo runs (SpecEngine)
    config,       \* value returned by getFormatConfig (SpecFormat)
    sizes,        \* per candidate, originalSize and the value optimizeVideo resolved with
    torn,         \* per candidate, whether its failed operation left a partial file
    fs0,          \* the file system as the build left it
    heap,         \* the flag arrays created so far: address -> elements
    cfgs,         \* per candidate, options and cfg of its optimizeVideo call
    ext,          \* argument ext of getVideoOptions (SpecOptions)
    resolved      \* value returned by getVideoOptions (SpecOptions)

vars == <<distDir, options, concurrency, fs, cb, videoFiles, chunks, cur,
          pc, promise, buf, error, reports, banner, ext, resolved,
          entryName, included, inputPath, command, config, sizes, torn, fs0, heap, cfgs>>

\* the variables of the specifications of single functions
pureVars == <<entryName, included, inputPath, command, config>>

----------------------------------------------------------------------------
(* Bounds.                                                                 *)

MaxConcurrency == 2      \* largest options.concurrency of a modelled run
MaxChunkConcurrency == 4 \* largest concurrency of SpecChunks
MaxChunkFiles == 6       \* longest candidate list of SpecChunks
MaxExclude == 2          \* longest exclude list of SpecExclude

----------------------------------------------------------------------------
(* Strings, as JavaScript and node:path compute them.                      *)

UpperChars == "ABCDEFGHIJKLMNOPQRSTUVWXYZ"
LowerChars == "abcdefghijklmnopqrstuvwxyz"

CharAt(s, i) == SubSeq(s, i, i)

LowerChar(c) ==
    IF \E i \in 1..Len(UpperChars) : CharAt(UpperChars, i) = c
    THEN CharAt(LowerChars, CHOOSE i \in 1..Len(UpperChars) : CharAt(UpperChars, i) = c)
    ELSE c

RECURSIVE toLowerCase(_)
toLowerCase(s) ==
    IF s = "" THEN ""
    ELSE LowerChar(CharAt(s, 1)) \o toLowerCase(SubSeq(s, 2, Len(s)))

\* index of the last occurrence of the one-character string c in s, 0 if none
LastIndexOf(s, c) ==
    LET hits == {i \in 1..Len(s) : CharAt(s, i) = c}
    IN  IF hits = {} THEN 0 ELSE CHOOSE i \in hits : \A j \in hits : j <= i

basename(p) == SubSeq(p, LastIndexOf(p, "/") + 1, Len(p))

extname(p) ==
    LET b == basename(p)
        d == LastIndexOf(b, ".")
    IN  IF d <= 1 \/ b = ".." THEN "" ELSE SubSeq(b, d, Len(b))

startsWith(s, prefix) ==
    Len(prefix) <= Len(s) /\ SubSeq(s, 1, Len(prefix)) = prefix

includes(s, pattern) ==
    \E i \in 1..(Len(s) - Len(pattern) + 1) :
        SubSeq(s, i, i + Len(pattern) - 1) = pattern

join(dir, name) == dir \o "/" \o name

----------------------------------------------------------------------------
(* Option resolution.                                                      *)

\* An object is a function from its keys; a key whose value is undefined (or
\* null) is a key outside the DOMAIN, as obj[key] reads it.
EmptyObject == [k \in {} |-> 0]

VIDEO_EXTENSIONS == <<".mp4", ".webm", ".mov", ".avi">>

\* obj[key] is neither undefined nor null
Has(obj, key) == key \in DOMAIN obj

\* formatOptions?.field ?? options.field ?? dflt, with formatOptions = options[lower]
ResolveGlobalFirst(opts, lower, field, dflt) ==
    IF Has(opts, field) THEN opts[field]
    ELSE IF Has(opts, lower) /\ Has(opts[lower], field) THEN opts[lower][field]
    ELSE dflt
Resolve(opts, lower, field, dflt) ==
    IF Has(opts, lower) /\ Has(opts[lower], field) THEN opts[lower][field]
    ELSE IF Has(opts, field) THEN opts[field]
    ELSE dflt

getVideoOptions(e, opts) ==
    LET lower == toLowerCase(e)
    IN  [quality |-> Resolve(opts, lower, "quality", 18),
         preset  |-> Resolve(opts, lower, "preset", "medium"),
         mute    |-> Resolve(opts, lower, "mute", FALSE)]

----------------------------------------------------------------------------
(* The directory tree and the scanner.                                     *)

Absent == ""

\* The directories of the modelled tree and, in readdir order, the names
\* that may be found in each; a name ending in "/" is a subdirectory.
Tree ==
    [o |-> <<"a.mp4", "a.mp4.tmp.mp4", "n.txt", "s/">>] @@
    ("o/s" :> <<"c.MOV">>)

IsDirName(name) == CharAt(name, Len(name)) = "/"
DirName(name) == SubSeq(name, 1, Len(name) - 1)

existsSyncDir(dir) == dir \in DOMAIN Tree

\* every path at which the tree may hold a regular file
Files ==
    UNION {{join(d, Tree[d][i]) : i \in {k \in 1..Len(Tree[d]) : ~IsDirName(Tree[d][k])}}
           : d \in DOMAIN Tree}

Contains(seq, x) == \E i \in 1..Len(seq) : seq[i] = x

\* exclude.some(...)
Excluded(fileName, e, pattern) ==
    IF startsWith(pattern, ".") THEN e = pattern ELSE includes(fileName, pattern)

isVideoFileAnyExtension(fileName, exclude) ==
    LET e == toLowerCase(extname(fileName))
    IN  ~\E i \in 1..Len(exclude) : Excluded(fileName, e, exclude[i])
isVideoFile(fileName, exclude) ==
    LET e == toLowerCase(extname(fileName))
    IN  IF ~Contains(VIDEO_EXTENSIONS, e) THEN FALSE
        ELSE ~\E i \in 1..Len(exclude) : Excluded(fileName, e, exclude[i])

\* the for loop of scanDirectory over entries[i..], on the file system f
RECURSIVE scanEntries(_, _, _, _)
scanEntries(f, currentDir, i, exclude) ==
    IF i > Len(Tree[currentDir]) THEN <<>>
    ELSE LET name == Tree[currentDir][i]
             fullPath == join(currentDir, name)
             rest == scanEntries(f, currentDir, i + 1, exclude)
         IN  IF IsDirName(name)
             THEN (IF existsSyncDir(join(currentDir, DirName(name)))
                   THEN scanEntries(f, join(currentDir, DirName(name)), 1, exclude)
                   ELSE <<>>) \o rest
             ELSE IF f[fullPath] # Absent /\ isVideoFile(name, exclude)
                  THEN <<fullPath>> \o rest
                  ELSE rest

findVideoFiles(f, dir, exclude) ==
    IF ~existsSyncDir(dir) THEN <<>> ELSE scanEntries(f, dir, 1, exclude)

\* const ext = path.extname(videoFile).toLowerCase();
\* const tempOutputPath = `${videoFile}.tmp${ext}`
tempPathOf(videoFile) ==
    videoFile \o ".tmp" \o toLowerCase(extname(videoFile))

\* tempPathOf, tabulated
TempPaths == [f \in Files |-> tempPathOf(f)]

\* path.extname(videoFile).toLowerCase(), tabulated
LowerExts == [f \in Files |-> toLowerCase(extname(f))]
tempOutputPath(videoFile) == TempPaths[videoFile]

\* every path a run can touch
Paths == Files \cup {tempOutputPath(f) : f \in Files}

\* const { exclude = [] } = options
excludeOf(opts) == IF Has(opts, "exclude") THEN opts["exclude"] ELSE <<>>

----------------------------------------------------------------------------
(* Partitioning.                                                           *)

Min(a, b) == IF a < b THEN a ELSE b

\* videoFiles.slice(from, to) for 0 <= from, with zero-based bounds
sliceInclusive(seq, from, to) == SubSeq(seq, from + 1, Min(to + 1, Len(seq)))
slice(seq, from, to) == SubSeq(seq, from + 1, Min(to, Len(seq)))

\* for (let i = 0; i < videoFiles.length; i += concurrency) chunks.push(...)
RECURSIVE chunkLoop(_, _, _, _)
chunkLoop(seq, c, i, acc) ==
    IF i < Len(seq)
    THEN chunkLoop(seq, c, i + c, Append(acc, slice(seq, i, i + c)))
    ELSE acc

\* the loop terminates only when i advances
chunkLoopTerminates(seq, c) == Len(seq) = 0 \/ c >= 1

buildChunksWider(seq, c) == chunkLoop(seq, c + 1, 0, <<>>)
buildChunks(seq, c) == chunkLoop(seq, c, 0, <<>>)

----------------------------------------------------------------------------
(* File contents.                                                          *)

Orig(p) == "orig:" \o p      \* what the build left at p
Opt(f) == "opt:" \o f        \* the complete output of the engine run for candidate f
Partial(f) == "part:" \o f   \* an incomplete write made while processing f

----------------------------------------------------------------------------
(* The engine command: getFormatConfig and the ffmpeg(...) chain of        *)
(* optimizeVideo.                                                          *)

\* const optionsCommon = [...]
optionsCommonNoOverwrite(opts) ==
    <<"-crf", ToString(opts.quality), "-preset", opts.preset,
      "-pix_fmt", "yuv420p">>
optionsCommon(opts) ==
    <<"-crf", ToString(opts.quality), "-preset", opts.preset,
      "-pix_fmt", "yuv420p", "-y">>

\* opts.preset === "slow" ? "0" : opts.preset === "medium" ? "2" : "4"
cpuUsedMediumElse(preset) ==
    IF preset = "slow" THEN "0" ELSE IF preset = "fast" THEN "4" ELSE "2"
cpuUsed(preset) ==
    IF preset = "slow" THEN "0" ELSE IF preset = "medium" THEN "2" ELSE "4"

getFormatConfigNoAvi(e, opts) ==
    LET lower == toLowerCase(e)
    IN  IF lower = ".webm"
        THEN [codec |-> "libvpx-vp9", format |-> "webm",
              options |-> <<"-crf", ToString(opts.quality), "-b:v", "0",
                            "-pix_fmt", "yuv420p",
                            "-cpu-used", cpuUsed(opts.preset), "-y">>]
        ELSE IF lower = ".mov"
        THEN [codec |-> "libx264", format |-> "mov", options |-> optionsCommon(opts)]
        ELSE [codec |-> "libx264", format |-> "mp4",
              options |-> optionsCommon(opts) \o
                          <<"-profile:v", "high", "-level", "4.0",
                            "-movflags", "+faststart">>]
getFormatConfig(e, opts) ==
    LET lower == toLowerCase(e)
    IN  IF lower = ".webm"
        THEN [codec |-> "libvpx-vp9", format |-> "webm",
              options |-> <<"-crf", ToString(opts.quality), "-b:v", "0",
                            "-pix_fmt", "yuv420p",
                            "-cpu-used", cpuUsed(opts.preset), "-y">>]
        ELSE IF lower = ".mov"
        THEN [codec |-> "libx264", format |-> "mov", options |-> optionsCommon(opts)]
        ELSE IF lower = ".avi"
        THEN [codec |-> "libx264", format |-> "avi", options |-> optionsCommon(opts)]
        ELSE [codec |-> "libx264", format |-> "mp4",
              options |-> optionsCommon(opts) \o
                          <<"-profile:v", "high", "-level", "4.0",
                            "-movflags", "+faststart">>]

\* ffmpeg(inputPath).videoCodec(..).format(..).outputOptions(..).output(..),
\* and .noAudio() if (options.mute)
ffmpegCommandNoAudio(inPath, outPath, videoOptions) ==
    LET cfg == getFormatConfig(toLowerCase(extname(inPath)), videoOptions)
    IN  [input |-> inPath, videoCodec |-> cfg.codec, format |-> cfg.format,
         outputOptions |-> cfg.options, output |-> outPath, noAudio |-> TRUE]
ffmpegCommand(inPath, outPath, videoOptions) ==
    LET cfg == getFormatConfig(toLowerCase(extname(inPath)), videoOptions)
    IN  [input |-> inPath, videoCodec |-> cfg.codec, format |-> cfg.format,
         outputOptions |-> cfg.options, output |-> outPath,
         noAudio |-> videoOptions.mute]

\* The arrays the program creates live in a heap, address -> elements; a
\* fresh array is named after the call that evaluates the array literal.
newArray(h, a, elems) ==
    [x \in DOMAIN h \cup {a} |-> IF x = a THEN elems ELSE h[x]]

\* array.push(...elems)
push(h, a, elems) == [h EXCEPT ![a] = @ \o elems]

\* getFormatConfig(e, opts) called at `site` on the heap h: the heap after the
\* call and the object it returns, whose options field is the address of the
\* flag array
getFormatConfigHoisted(h, site, e, opts) ==
    LET c == getFormatConfig(e, opts)
        a == "optionsCommon"
        h1 == IF a \in DOMAIN h THEN h ELSE newArray(h, a, optionsCommon(opts))
        h2 == IF Len(c.options) > Len(optionsCommon(opts))
              THEN push(h1, a, SubSeq(c.options, Len(optionsCommon(opts)) + 1,
                                      Len(c.options)))
              ELSE h1
    IN  [heap |-> h2,
         value |-> [codec |-> c.codec, format |-> c.format, options |-> a]]
getFormatConfigAt(h, site, e, opts) ==
    LET c == getFormatConfig(e, opts)
        h1 == IF toLowerCase(e) = ".webm"
              THEN newArray(h, site, c.options)
              ELSE newArray(h, site, optionsCommon(opts))
        h2 == IF Len(c.options) > Len(h1[site])
              THEN push(h1, site, SubSeq(c.options, Len(h1[site]) + 1,
                                         Len(c.options)))
              ELSE h1
    IN  [heap |-> h2,
         value |-> [codec |-> c.codec, format |-> c.format, options |-> site]]

----------------------------------------------------------------------------
(* The run: optimizeVideos(options), configResolved, closeBundle.          *)

\* const { exclude = [], concurrency = 4 } = options
DefaultConcurrency == 4
concurrencyOf(opts) ==
    IF Has(opts, "concurrency") THEN opts["concurrency"] ELSE DefaultConcurrency

ExcludeLists == {<<>>, <<"tmp">>}

RunOptions ==
    {e @@ c : e \in {EmptyObject} \cup {[exclude |-> x] : x \in ExcludeLists \ {<<>>}},
              c \in {EmptyObject} \cup {[concurrency |-> n] : n \in 0..MaxConcurrency}}

FileSystems ==
    {f \in [Paths -> {Absent} \cup {Orig(p) : p \in Files}] :
        \A p \in Paths : f[p] # Absent => (p \in Files /\ f[p] = Orig(p))}

Init ==
    /\ distDir = ""
    /\ options \in RunOptions
    /\ concurrency = concurrencyOf(options)
    /\ fs \in FileSystems
    /\ cb = "init"
    /\ videoFiles = <<>>
    /\ chunks = <<>>
    /\ cur = 0
    /\ pc = [f \in Files |-> "None"]
    /\ promise = [f \in Files |-> "none"]
    /\ buf = [f \in Files |-> Absent]
    /\ error = [f \in Files |-> "none"]
    /\ reports = [f \in Files |-> [ok |-> 0, err |-> 0]]
    /\ banner = 0
    /\ entryName = ""
    /\ included = FALSE
    /\ inputPath = ""
    /\ command = EmptyObject
    /\ config = EmptyObject
    /\ sizes = [f \in Files |-> EmptyObject]
    /\ torn = [f \in Files |-> FALSE]
    /\ fs0 = fs
    /\ heap = EmptyObject
    /\ cfgs = [f \in Files |-> EmptyObject]
    /\ ext = ""
    /\ resolved = EmptyObject

Range(seq) == {seq[i] : i \in 1..Len(seq)}

\* configResolved(config): distDir = path.resolve(config.root, config.build.outDir)
ConfigResolved ==
    /\ cb = "init"
    /\ distDir = ""
    /\ distDir' \in {"o", "m"}
    /\ UNCHANGED <<options, concurrency, fs, cb, videoFiles, chunks, cur,
                   pc, promise, buf, error, reports, banner, ext, resolved,
                   pureVars, sizes, torn, fs0, heap, cfgs>>

\* chunk.map((file) => processFile(file)): every unit of the chunk runs up to
\* its first await, the stat of optimizeVideo
StartChunkUnlimited(pcs, proms, chunk) ==
    /\ pc' = [f \in Files |-> IF f \in Range(chunk) \/ pcs[f] = "Discovered"
                              THEN "statIn" ELSE pcs[f]]
    /\ promise' = [f \in Files |-> IF f \in Range(chunk) \/ pcs[f] = "Discovered"
                                   THEN "pending" ELSE proms[f]]
StartChunk(pcs, proms, chunk) ==
    /\ pc' = [f \in Files |-> IF f \in Range(chunk) THEN "statIn" ELSE pcs[f]]
    /\ promise' = [f \in Files |-> IF f \in Range(chunk) THEN "pending" ELSE proms[f]]

\* closeBundle up to its first await Promise.all
CloseBundle ==
    /\ cb = "init"
    /\ IF distDir = "" \/ ~existsSyncDir(distDir)
       THEN /\ cb' = "resolved"
            /\ UNCHANGED <<videoFiles, chunks, cur, pc, promise>>
       ELSE LET found == findVideoFiles(fs, distDir, excludeOf(options))
                discovered == [f \in Files |->
                                 IF f \in Range(found) THEN "Discovered" ELSE pc[f]]
            IN  /\ videoFiles' = found
                /\ IF Len(found) = 0
                   THEN /\ cb' = "resolved"
                        /\ UNCHANGED <<chunks, cur, pc, promise>>
                   ELSE IF ~chunkLoopTerminates(found, concurrency)
                   THEN /\ cb' = "diverged"
                        /\ pc' = discovered
                        /\ UNCHANGED <<chunks, cur, promise>>
                   ELSE /\ cb' = "running"
                        /\ chunks' = buildChunks(found, concurrency)
                        /\ cur' = 1
                        /\ StartChunk(discovered, promise, chunks'[1])
    /\ UNCHANGED <<distDir, options, concurrency, fs, buf, error, reports, banner,
                   ext, resolved, pureVars, sizes, torn, fs0, heap, cfgs>>

\* await Promise.all(...) of a chunk is over when every unit has fulfilled
ChunkSettledRace(chunk) == \E f \in Range(chunk) : promise[f] = "fulfilled"
ChunkSettled(chunk) == \A f \in Range(chunk) : promise[f] = "fulfilled"

\* for (const chunk of chunks): the next iteration
NextChunk ==
    /\ cb = "running"
    /\ ChunkSettled(chunks[cur])
    /\ cur < Len(chunks)
    /\ cur' = cur + 1
    /\ StartChunk(pc, promise, chunks[cur + 1])
    /\ UNCHANGED <<distDir, options, concurrency, fs, cb, videoFiles, chunks,
                   buf, error, reports, banner, ext, resolved, pureVars, sizes, torn, fs0, heap, cfgs>>

\* the loop is over: the banner, and closeBundle resolves
Complete ==
    /\ cb = "running"
    /\ ChunkSettled(chunks[cur])
    /\ cur = Len(chunks)
    /\ banner' = banner + 1
    /\ cb' = "resolved"
    /\ UNCHANGED <<distDir, options, concurrency, fs, videoFiles, chunks, cur,
                   pc, promise, buf, error, reports, ext, resolved, pureVars, sizes, torn, fs0, heap, cfgs>>

\* Promise.all rejects with the first rejection; closeBundle has no handler
Abort ==
    /\ cb = "running"
    /\ \E f \in Range(chunks[cur]) : promise[f] = "rejected"
    /\ cb' = "rejected"
    /\ UNCHANGED <<distDir, options, concurrency, fs, videoFiles, chunks, cur,
                   pc, promise, buf, error, reports, banner, ext, resolved,
                   pureVars, sizes, torn, fs0, heap, cfgs>>

----------------------------------------------------------------------------
(* processFile(videoFile) and optimizeVideo, one action per awaited        *)
(* operation and outcome.  An operation on a missing file fails; any       *)
(* operation may also fail for a reason of its own (EACCES, EBUSY, ENOSPC).*)

\* (await stat(p)).size on the file system f
statSize(f, p) == Len(f[p])

\* resolve({ optimizedSize, originalSize })
resolveValueSwapped(originalSize, optimizedSize) ==
    [originalSize |-> optimizedSize, optimizedSize |-> originalSize]
resolveValue(originalSize, optimizedSize) ==
    [originalSize |-> originalSize, optimizedSize |-> optimizedSize]

FileFrame == UNCHANGED <<distDir, options, concurrency, cb, videoFiles, chunks,
                         cur, banner, ext, resolved, pureVars, fs0>>

Goto(f, label) ==
    /\ pc' = [pc EXCEPT ![f] = label]
    /\ UNCHANGED <<promise, error, reports>>

Settle(f, label, outcome) ==
    /\ pc' = [pc EXCEPT ![f] = label]
    /\ promise' = [promise EXCEPT ![f] = outcome]
    /\ UNCHANGED <<error, reports>>

\* catch (error): the error is logged; if (existsSync(tempOutputPath)) the
\* unit awaits unlink(tempOutputPath), else processFile returns
CatchRetry(f, fsNow) ==
    /\ error' = [error EXCEPT ![f] = pc[f]]
    /\ pc' = [pc EXCEPT ![f] = "statIn"]
    /\ UNCHANGED <<promise, reports>>
Catch(f, fsNow) ==
    /\ error' = [error EXCEPT ![f] = pc[f]]
    /\ reports' = [reports EXCEPT ![f].err = @ + 1]
    /\ IF fsNow[tempOutputPath(f)] # Absent
       THEN /\ pc' = [pc EXCEPT ![f] = "cleanup"]
            /\ UNCHANGED promise
       ELSE /\ pc' = [pc EXCEPT ![f] = "Failed"]
            /\ promise' = [promise EXCEPT ![f] = "fulfilled"]

\* const originalSize = (await stat(inputPath)).size, then
\* const cfg = getFormatConfig(ext, options) and ffmpeg(...).run(); options is
\* the object getVideoOptions returned to processFile
StatInOk(f) ==
    /\ pc[f] = "statIn"
    /\ fs[f] # Absent
    /\ Goto(f, "ffmpeg")
    /\ UNCHANGED <<fs, buf>>
    /\ sizes' = [sizes EXCEPT ![f] = [originalSize |-> statSize(fs, f)]]
    /\ UNCHANGED torn
    /\ LET videoOptions == getVideoOptions(LowerExts[f], options)
           made == getFormatConfigAt(heap, f, LowerExts[f], videoOptions)
       IN  /\ heap' = made.heap
           /\ cfgs' = [cfgs EXCEPT ![f] = [options |-> videoOptions, cfg |-> made.value]]
    /\ FileFrame

StatInFail(f) ==
    /\ pc[f] = "statIn"
    /\ Catch(f, fs)
    /\ UNCHANGED <<fs, buf>>
    /\ UNCHANGED <<sizes, torn>>
    /\ UNCHANGED <<heap, cfgs>>
    /\ FileFrame

\* .on("end"): the engine has left its complete output at outputPath
EngineEnd(f) ==
    /\ pc[f] = "ffmpeg"
    /\ fs' = [fs EXCEPT ![tempOutputPath(f)] = Opt(f)]
    /\ Goto(f, "statOut")
    /\ UNCHANGED buf
    /\ UNCHANGED <<sizes, torn>>
    /\ UNCHANGED <<heap, cfgs>>
    /\ FileFrame

\* .on("error", reject): the engine wrote nothing, or part of its output
EngineError(f) ==
    /\ pc[f] = "ffmpeg"
    /\ \/ fs' = fs /\ torn' = [torn EXCEPT ![f] = FALSE]
       \/ /\ fs' = [fs EXCEPT ![tempOutputPath(f)] = Partial(f)]
          /\ torn' = [torn EXCEPT ![f] = TRUE]
    /\ Catch(f, fs')
    /\ UNCHANGED buf
    /\ UNCHANGED sizes
    /\ UNCHANGED <<heap, cfgs>>
    /\ FileFrame

\* const optimizedSize = (await stat(outputPath)).size; resolve; the success
\* report; unlink(videoFile) is started
StatOutOk(f) ==
    /\ pc[f] = "statOut"
    /\ fs[tempOutputPath(f)] # Absent
    /\ reports' = [reports EXCEPT ![f].ok = @ + 1]
    /\ pc' = [pc EXCEPT ![f] = "unlinkOrig"]
    /\ UNCHANGED <<promise, error>>
    /\ UNCHANGED <<fs, buf>>
    /\ sizes' = [sizes EXCEPT ![f] =
                   resolveValue(@.originalSize, statSize(fs, tempOutputPath(f)))]
    /\ UNCHANGED torn
    /\ UNCHANGED <<heap, cfgs>>
    /\ FileFrame

StatOutFail(f) ==
    /\ pc[f] = "statOut"
    /\ Catch(f, fs)
    /\ UNCHANGED <<fs, buf>>
    /\ UNCHANGED <<sizes, torn>>
    /\ UNCHANGED <<heap, cfgs>>
    /\ FileFrame

\* await unlink(videoFile)
UnlinkOrigOk(f) ==
    /\ pc[f] = "unlinkOrig"
    /\ fs[f] # Absent
    /\ fs' = [fs EXCEPT ![f] = Absent]
    /\ Goto(f, "readTemp")
    /\ UNCHANGED buf
    /\ UNCHANGED <<sizes, torn>>
    /\ UNCHANGED <<heap, cfgs>>
    /\ FileFrame

UnlinkOrigFail(f) ==
    /\ pc[f] = "unlinkOrig"
    /\ Catch(f, fs)
    /\ UNCHANGED <<fs, buf>>
    /\ UNCHANGED <<sizes, torn>>
    /\ UNCHANGED <<heap, cfgs>>
    /\ FileFrame

\* await readFile(tempOutputPath)
ReadTempOk(f) ==
    /\ pc[f] = "readTemp"
    /\ fs[tempOutputPath(f)] # Absent
    /\ buf' = [buf EXCEPT ![f] = fs[tempOutputPath(f)]]
    /\ Goto(f, "writeOrig")
    /\ UNCHANGED fs
    /\ UNCHANGED <<sizes, torn>>
    /\ UNCHANGED <<heap, cfgs>>
    /\ FileFrame

ReadTempFail(f) ==
    /\ pc[f] = "readTemp"
    /\ Catch(f, fs)
    /\ UNCHANGED <<fs, buf>>
    /\ UNCHANGED <<sizes, torn>>
    /\ UNCHANGED <<heap, cfgs>>
    /\ FileFrame

\* await writeFile(videoFile, <buffer>)
WriteOrigOk(f) ==
    /\ pc[f] = "writeOrig"
    /\ fs' = [fs EXCEPT ![f] = buf[f]]
    /\ Goto(f, "unlinkTemp")
    /\ UNCHANGED buf
    /\ UNCHANGED <<sizes, torn>>
    /\ UNCHANGED <<heap, cfgs>>
    /\ FileFrame

\* the write fails before the file is opened, or after part of it is written
WriteOrigFail(f) ==
    /\ pc[f] = "writeOrig"
    /\ \/ fs' = fs /\ torn' = [torn EXCEPT ![f] = FALSE]
       \/ /\ fs' = [fs EXCEPT ![f] = Partial(f)]
          /\ torn' = [torn EXCEPT ![f] = TRUE]
    /\ Catch(f, fs')
    /\ UNCHANGED buf
    /\ UNCHANGED sizes
    /\ UNCHANGED <<heap, cfgs>>
    /\ FileFrame

\* await unlink(tempOutputPath): the last statement of the try block
UnlinkTempOk(f) ==
    /\ pc[f] = "unlinkTemp"
    /\ fs[tempOutputPath(f)] # Absent
    /\ fs' = [fs EXCEPT ![tempOutputPath(f)] = Absent]
    /\ Settle(f, "Done", "fulfilled")
    /\ UNCHANGED buf
    /\ UNCHANGED <<sizes, torn>>
    /\ UNCHANGED <<heap, cfgs>>
    /\ FileFrame

UnlinkTempFail(f) ==
    /\ pc[f] = "unlinkTemp"
    /\ Catch(f, fs)
    /\ UNCHANGED <<fs, buf>>
    /\ UNCHANGED <<sizes, torn>>
    /\ UNCHANGED <<heap, cfgs>>
    /\ FileFrame

\* await unlink(tempOutputPath) inside the catch block
CleanupOk(f) ==
    /\ pc[f] = "cleanup"
    /\ fs[tempOutputPath(f)] # Absent
    /\ fs' = [fs EXCEPT ![tempOutputPath(f)] = Absent]
    /\ Settle(f, "Failed", "fulfilled")
    /\ UNCHANGED buf
    /\ UNCHANGED <<sizes, torn>>
    /\ UNCHANGED <<heap, cfgs>>
    /\ FileFrame

\* the unlink of the catch block throws: nothing catches it
CleanupFail(f) ==
    /\ pc[f] = "cleanup"
    /\ Settle(f, "Failed", "rejected")
    /\ UNCHANGED <<fs, buf>>
    /\ UNCHANGED <<sizes, torn>>
    /\ UNCHANGED <<heap, cfgs>>
    /\ FileFrame

Next ==
    \/ ConfigResolved
    \/ CloseBundle
    \/ NextChunk
    \/ Complete
    \/ Abort
    \/ \E f \in Files : StatInOk(f)
    \/ \E f \in Files : StatInFail(f)
    \/ \E f \in Files : EngineEnd(f)
    \/ \E f \in Files : EngineError(f)
    \/ \E f \in Files : StatOutOk(f)
    \/ \E f \in Files : StatOutFail(f)
    \/ \E f \in Files : UnlinkOrigOk(f)
    \/ \E f \in Files : UnlinkOrigFail(f)
    \/ \E f \in Files : ReadTempOk(f)
    \/ \E f \in Files : ReadTempFail(f)
    \/ \E f \in Files : WriteOrigOk(f)
    \/ \E f \in Files : WriteOrigFail(f)
    \/ \E f \in Files : UnlinkTempOk(f)
    \/ \E f \in Files : UnlinkTempFail(f)
    \/ \E f \in Files : CleanupOk(f)
    \/ \E f \in Files : CleanupFail(f)

Spec == Init /\ [][Next]_vars

\* The same run when every pending continuation eventually runs: the chunk
\* loop goes on when its Promise.all settles, every awaited file operation
\* completes, and every engine invocation eventually emits end or error.
\* Nothing obliges the build to call the hooks.
LoopStep == NextChunk \/ Complete \/ Abort
FileOperation ==
    \E f \in Files :
        \/ StatInOk(f) \/ StatInFail(f) \/ StatOutOk(f) \/ StatOutFail(f)
        \/ UnlinkOrigOk(f) \/ UnlinkOrigFail(f) \/ ReadTempOk(f) \/ ReadTempFail(f)
        \/ WriteOrigOk(f) \/ WriteOrigFail(f) \/ UnlinkTempOk(f) \/ UnlinkTempFail(f)
        \/ CleanupOk(f) \/ CleanupFail(f)
EngineEvent == \E f \in Files : EngineEnd(f) \/ EngineError(f)
SpecLive ==
    /\ Spec
    /\ WF_vars(LoopStep)
    /\ WF_vars(FileOperation)
    /\ WF_vars(EngineEvent)

----------------------------------------------------------------------------
(* Partitioning alone: the chunk loop of closeBundle on any candidate list.*)

Digits == <<"1", "2", "3", "4", "5", "6", "7", "8", "9">>
ChunkFiles == [i \in 1..MaxChunkFiles |-> "o/v" \o Digits[i] \o ".mp4"]

RECURSIVE Keep(_, _, _)
Keep(seq, keep, i) ==
    IF i > Len(seq) THEN <<>>
    ELSE (IF i \in keep THEN <<seq[i]>> ELSE <<>>) \o Keep(seq, keep, i + 1)

InitChunks ==
    /\ distDir = "o"
    /\ options = EmptyObject
    /\ concurrency \in 1..MaxChunkConcurrency
    /\ fs = [p \in Paths |-> Absent]
    /\ cb = "init"
    /\ \E keep \in SUBSET (1..MaxChunkFiles) : videoFiles = Keep(ChunkFiles, keep, 1)
    /\ chunks = <<>>
    /\ cur = 0
    /\ pc = [f \in Files |-> "None"]
    /\ promise = [f \in Files |-> "none"]
    /\ buf = [f \in Files |-> Absent]
    /\ error = [f \in Files |-> "none"]
    /\ reports = [f \in Files |-> [ok |-> 0, err |-> 0]]
    /\ banner = 0
    /\ entryName = ""
    /\ included = FALSE
    /\ inputPath = ""
    /\ command = EmptyObject
    /\ config = EmptyObject
    /\ sizes = [f \in Files |-> EmptyObject]
    /\ torn = [f \in Files |-> FALSE]
    /\ fs0 = fs
    /\ heap = EmptyObject
    /\ cfgs = [f \in Files |-> EmptyObject]
    /\ ext = ""
    /\ resolved = EmptyObject

Partition ==
    /\ cb = "init"
    /\ chunkLoopTerminates(videoFiles, concurrency)
    /\ chunks' = buildChunks(videoFiles, concurrency)
    /\ cb' = "partitioned"
    /\ UNCHANGED <<distDir, options, concurrency, fs, videoFiles, cur, pc,
                   promise, buf, error, reports, banner, ext, resolved, pureVars, sizes, torn, fs0, heap, cfgs>>

NextChunks == Partition

SpecChunks == InitChunks /\ [][NextChunks]_vars

----------------------------------------------------------------------------
(* Option resolution alone: getVideoOptions on any options object.         *)

FormatOptionObjects ==
    {q @@ p @@ m : q \in {EmptyObject, [quality |-> 0], [quality |-> 18]},
                   p \in {EmptyObject, [preset |-> "slow"]},
                   m \in {EmptyObject, [mute |-> TRUE], [mute |-> FALSE]}}

GlobalOptionObjects ==
    {q @@ p @@ m : q \in {EmptyObject, [quality |-> 20]},
                   p \in {EmptyObject, [preset |-> "fast"]},
                   m \in {EmptyObject, [mute |-> TRUE], [mute |-> FALSE]}}

OptionObjects ==
    {g @@ a @@ b : g \in GlobalOptionObjects,
                   a \in {EmptyObject} \cup {".mp4" :> o : o \in FormatOptionObjects},
                   b \in {EmptyObject} \cup {".webm" :> [quality |-> 25]}}

ExtInputs == {".mp4", ".MP4", ".webm", ".mov", ".Avi"}

InitOptions ==
    /\ distDir = ""
    /\ options \in OptionObjects
    /\ concurrency = concurrencyOf(options)
    /\ fs = [p \in Paths |-> Absent]
    /\ cb = "init"
    /\ videoFiles = <<>>
    /\ chunks = <<>>
    /\ cur = 0
    /\ pc = [f \in Files |-> "None"]
    /\ promise = [f \in Files |-> "none"]
    /\ buf = [f \in Files |-> Absent]
    /\ error = [f \in Files |-> "none"]
    /\ reports = [f \in Files |-> [ok |-> 0, err |-> 0]]
    /\ banner = 0
    /\ entryName = ""
    /\ included = FALSE
    /\ inputPath = ""
    /\ command = EmptyObject
    /\ config = EmptyObject
    /\ sizes = [f \in Files |-> EmptyObject]
    /\ torn = [f \in Files |-> FALSE]
    /\ fs0 = fs
    /\ heap = EmptyObject
    /\ cfgs = [f \in Files |-> EmptyObject]
    /\ ext \in ExtInputs
    /\ resolved = EmptyObject

ResolveOptions ==
    /\ resolved = EmptyObject
    /\ resolved' = getVideoOptions(ext, options)
    /\ UNCHANGED <<distDir, options, concurrency, fs, cb, videoFiles, chunks,
                   cur, pc, promise, buf, error, reports, banner, ext, pureVars, sizes, torn, fs0, heap, cfgs>>

NextOptions == ResolveOptions

SpecOptions == InitOptions /\ [][NextOptions]_vars

----------------------------------------------------------------------------
(* Exclusion alone: isVideoFile on any entry name and exclude list.        *)

EntryNames ==
    {"intro_clip.mp4", "clip_intro_reversed.mp4", "clip.mp4", "a.MP4",
     "b.webm", "c.Mov", "intro.txt", ".mp4"}

ExcludePatterns == {".mp4", ".MP4", ".mov", "intro", "Intro", "mp4", "clip."}

ExcludeListsUpTo(n) == UNION {[1..k -> ExcludePatterns] : k \in 0..n}

InitExclude ==
    /\ distDir = ""
    /\ \E x \in ExcludeListsUpTo(MaxExclude) :
           options = IF x = <<>> THEN EmptyObject ELSE [exclude |-> x]
    /\ concurrency = concurrencyOf(options)
    /\ fs = [p \in Paths |-> Absent]
    /\ cb = "init"
    /\ videoFiles = <<>>
    /\ chunks = <<>>
    /\ cur = 0
    /\ pc = [f \in Files |-> "None"]
    /\ promise = [f \in Files |-> "none"]
    /\ buf = [f \in Files |-> Absent]
    /\ error = [f \in Files |-> "none"]
    /\ reports = [f \in Files |-> [ok |-> 0, err |-> 0]]
    /\ banner = 0
    /\ entryName \in EntryNames
    /\ included = FALSE
    /\ inputPath = ""
    /\ command = EmptyObject
    /\ config = EmptyObject
    /\ sizes = [f \in Files |-> EmptyObject]
    /\ torn = [f \in Files |-> FALSE]
    /\ fs0 = fs
    /\ heap = EmptyObject
    /\ cfgs = [f \in Files |-> EmptyObject]
    /\ ext = ""
    /\ resolved = EmptyObject

\* entry.isFile() && isVideoFile(entry.name, exclude)
FilterEntry ==
    /\ cb = "init"
    /\ included' = isVideoFile(entryName, excludeOf(options))
    /\ cb' = "filtered"
    /\ UNCHANGED <<distDir, options, concurrency, fs, videoFiles, chunks, cur,
                   pc, promise, buf, error, reports, banner, ext, resolved,
                   entryName, inputPath, command, config, sizes, torn, fs0, heap, cfgs>>

NextExclude == FilterEntry

SpecExclude == InitExclude /\ [][NextExclude]_vars

----------------------------------------------------------------------------
(* The scanner alone: findVideoFiles on any content of the tree.           *)

ScanExcludeLists ==
    {<<>>, <<"tmp">>, <<".mov">>, <<".MOV">>, <<"s">>, <<".mp4", "c">>, <<"a.mp4">>}

InitScan ==
    /\ distDir \in {"o", "o/s", "m"}
    /\ \E x \in ScanExcludeLists :
           options = IF x = <<>> THEN EmptyObject ELSE [exclude |-> x]
    /\ concurrency = concurrencyOf(options)
    /\ fs \in FileSystems
    /\ cb = "init"
    /\ videoFiles = <<>>
    /\ chunks = <<>>
    /\ cur = 0
    /\ pc = [f \in Files |-> "None"]
    /\ promise = [f \in Files |-> "none"]
    /\ buf = [f \in Files |-> Absent]
    /\ error = [f \in Files |-> "none"]
    /\ reports = [f \in Files |-> [ok |-> 0, err |-> 0]]
    /\ banner = 0
    /\ entryName = ""
    /\ included = FALSE
    /\ inputPath = ""
    /\ command = EmptyObject
    /\ config = EmptyObject
    /\ sizes = [f \in Files |-> EmptyObject]
    /\ torn = [f \in Files |-> FALSE]
    /\ fs0 = fs
    /\ heap = EmptyObject
    /\ cfgs = [f \in Files |-> EmptyObject]
    /\ ext = ""
    /\ resolved = EmptyObject

\* const videoFiles = await findVideoFiles(distDir, exclude)
Scan ==
    /\ cb = "init"
    /\ videoFiles' = findVideoFiles(fs, distDir, excludeOf(options))
    /\ cb' = "scanned"
    /\ UNCHANGED <<distDir, options, concurrency, fs, chunks, cur, pc, promise,
                   buf, error, reports, banner, ext, resolved, pureVars, sizes, torn, fs0, heap, cfgs>>

NextScan == Scan

SpecScan == InitScan /\ [][NextScan]_vars

----------------------------------------------------------------------------
(* optimizeVideo alone, up to command.run(), on any candidate path.        *)

EnginePaths ==
    {"o/a.mp4", "o/A.MP4", "o/b.webm", "o/b.WebM", "o/c.mov", "o/d.AVI"}

EngineFormatObjects ==
    {EmptyObject, [mute |-> TRUE], [mute |-> FALSE], [preset |-> "slow"],
     [quality |-> 30]}

EngineOptionObjects ==
    {q @@ p @@ m @@ a @@ b :
        q \in {EmptyObject, [quality |-> 20]},
        p \in {EmptyObject} \cup
              {[preset |-> x] : x \in {"slow", "medium", "fast", "veryslow"}},
        m \in {EmptyObject, [mute |-> TRUE], [mute |-> FALSE]},
        a \in {EmptyObject} \cup {".webm" :> o : o \in EngineFormatObjects \ {EmptyObject}},
        b \in {EmptyObject} \cup {".avi" :> o : o \in EngineFormatObjects \ {EmptyObject}}}

InitEngine ==
    /\ distDir = "o"
    /\ options \in EngineOptionObjects
    /\ concurrency = concurrencyOf(options)
    /\ fs = [p \in Paths |-> Absent]
    /\ cb = "init"
    /\ videoFiles = <<>>
    /\ chunks = <<>>
    /\ cur = 0
    /\ pc = [f \in Files |-> "None"]
    /\ promise = [f \in Files |-> "none"]
    /\ buf = [f \in Files |-> Absent]
    /\ error = [f \in Files |-> "none"]
    /\ reports = [f \in Files |-> [ok |-> 0, err |-> 0]]
    /\ banner = 0
    /\ entryName = ""
    /\ included = FALSE
    /\ inputPath \in EnginePaths
    /\ command = EmptyObject
    /\ config = EmptyObject
    /\ sizes = [f \in Files |-> EmptyObject]
    /\ torn = [f \in Files |-> FALSE]
    /\ fs0 = fs
    /\ heap = EmptyObject
    /\ cfgs = [f \in Files |-> EmptyObject]
    /\ ext = ""
    /\ resolved = EmptyObject

\* processFile up to optimizeVideo(videoFile, tempOutputPath, videoOptions),
\* and optimizeVideo up to command.run()
RunEngine ==
    /\ command = EmptyObject
    /\ ext' = toLowerCase(extname(inputPath))
    /\ resolved' = getVideoOptions(ext', options)
    /\ command' = ffmpegCommand(inputPath, tempPathOf(inputPath), resolved')
    /\ UNCHANGED <<distDir, options, concurrency, fs, cb, videoFiles, chunks,
                   cur, pc, promise, buf, error, reports, banner,
                   entryName, included, inputPath, config, sizes, torn, fs0, heap, cfgs>>

NextEngine == RunEngine

SpecEngine == InitEngine /\ [][NextEngine]_vars

----------------------------------------------------------------------------
(* The sequential plugin (unnamed/part_000): closeBundle with                *)
(* for (const videoFile of videoFiles) around the same try/catch body.  It  *)
(* has no chunks and no concurrency option; cur is the index of the file    *)
(* the loop is at.                                                          *)

StartFile(pcs, proms, file) ==
    /\ pc' = [pcs EXCEPT ![file] = "statIn"]
    /\ promise' = [proms EXCEPT ![file] = "pending"]

\* closeBundle up to the first await of the first iteration
CloseBundleSequential ==
    /\ cb = "init"
    /\ IF distDir = "" \/ ~existsSyncDir(distDir)
       THEN /\ cb' = "resolved"
            /\ UNCHANGED <<videoFiles, cur, pc, promise>>
       ELSE LET found == findVideoFiles(fs, distDir, excludeOf(options))
                discovered == [f \in Files |->
                                 IF f \in Range(found) THEN "Discovered" ELSE pc[f]]
            IN  /\ videoFiles' = found
                /\ IF Len(found) = 0
                   THEN /\ cb' = "resolved"
                        /\ UNCHANGED <<cur, pc, promise>>
                   ELSE /\ cb' = "running"
                        /\ cur' = 1
                        /\ StartFile(discovered, promise, found[1])
    /\ UNCHANGED <<distDir, options, fs, buf, error, reports, banner,
                   ext, resolved, pureVars, sizes, torn, fs0, heap, cfgs>>

\* the iteration is over without a throw: the next iteration
NextFile ==
    /\ cb = "running"
    /\ promise[videoFiles[cur]] = "fulfilled"
    /\ cur < Len(videoFiles)
    /\ cur' = cur + 1
    /\ StartFile(pc, promise, videoFiles[cur + 1])
    /\ UNCHANGED <<distDir, options, fs, cb, videoFiles,
                   buf, error, reports, banner, ext, resolved, pureVars,
                   sizes, torn, fs0, heap, cfgs>>

\* the loop is over: the banner, and closeBundle resolves
CompleteSequential ==
    /\ cb = "running"
    /\ promise[videoFiles[cur]] = "fulfilled"
    /\ cur = Len(videoFiles)
    /\ banner' = banner + 1
    /\ cb' = "resolved"
    /\ UNCHANGED <<distDir, options, fs, videoFiles, cur,
                   pc, promise, buf, error, reports, ext, resolved, pureVars,
                   sizes, torn, fs0, heap, cfgs>>

\* the unlink of the catch block throws out of the loop: closeBundle rejects
AbortSequential ==
    /\ cb = "running"
    /\ promise[videoFiles[cur]] = "rejected"
    /\ cb' = "rejected"
    /\ UNCHANGED <<distDir, options, fs, videoFiles, cur,
                   pc, promise, buf, error, reports, banner, ext, resolved,
                   pureVars, sizes, torn, fs0, heap, cfgs>>

NextSequential ==
    \/ ConfigResolved
    \/ CloseBundleSequential
    \/ NextFile
    \/ CompleteSequential
    \/ AbortSequential
    \/ FileOperation
    \/ EngineEvent

----------------------------------------------------------------------------
(* getFormatConfig alone, on any extension string.                         *)

FormatExtInputs ==
    {".mp4", ".MP4", ".webm", ".mov", ".avi", ".AVI", ".mkv", ".MKV", ".ogv", ""}

\* opts: { quality: number; preset: string; mute: boolean }
FormatOptionInputs ==
    [quality : {18, 20, 30}, preset : {"slow", "medium", "fast", "veryslow"},
     mute : BOOLEAN]

InitFormat ==
    /\ distDir = ""
    /\ options = EmptyObject
    /\ concurrency = concurrencyOf(options)
    /\ fs = [p \in Paths |-> Absent]
    /\ cb = "init"
    /\ videoFiles = <<>>
    /\ chunks = <<>>
    /\ cur = 0
    /\ pc = [f \in Files |-> "None"]
    /\ promise = [f \in Files |-> "none"]
    /\ buf = [f \in Files |-> Absent]
    /\ error = [f \in Files |-> "none"]
    /\ reports = [f \in Files |-> [ok |-> 0, err |-> 0]]
    /\ banner = 0
    /\ entryName = ""
    /\ included = FALSE
    /\ inputPath = ""
    /\ command = EmptyObject
    /\ config = EmptyObject
    /\ sizes = [f \in Files |-> EmptyObject]
    /\ torn = [f \in Files |-> FALSE]
    /\ fs0 = fs
    /\ heap = EmptyObject
    /\ cfgs = [f \in Files |-> EmptyObject]
    /\ ext \in FormatExtInputs
    /\ resolved \in FormatOptionInputs

\* const cfg = getFormatConfig(ext, options)
GetFormatConfig ==
    /\ config = EmptyObject
    /\ config' = getFormatConfig(ext, resolved)
    /\ UNCHANGED <<distDir, options, concurrency, fs, cb, videoFiles, chunks,
                   cur, pc, promise, buf, error, reports, banner, ext, resolved,
                   entryName, included, inputPath, command, sizes, torn, fs0, heap, cfgs>>

NextFormat == GetFormatConfig

SpecFormat == InitFormat /\ [][NextFormat]_vars

----------------------------------------------------------------------------
(* Vocabulary of the properties.                                           *)

Candidates == Range(videoFiles)
Terminal(f) == pc[f] \in {"Done", "Failed"}
Started(f) == pc[f] \notin {"None", "Discovered"}
InFlight == {f \in Files : Started(f) /\ ~Terminal(f)}
Settled == cb \in {"resolved", "rejected"}
GroupOf(f) == CHOOSE k \in 1..Len(chunks) : f \in Range(chunks[k])

\* no other candidate's temp path is f, and f's temp path is no candidate
OwnsItsPaths(f) ==
    \A g \in Candidates : tempOutputPath(g) # f /\ tempOutputPath(f) # g

----------------------------------------------------------------------------
(* Properties.                                                             *)

\* C1: with concurrency c >= 1, at most c candidates are at any time started
\* and not yet terminal (Done or Failed).
C1_BoundedInFlight ==
    concurrency >= 1 => Cardinality(InFlight) <= concurrency

\* C1 witness: the bound is binding: c = 2 units are in flight while a third
\* candidate waits in Discovered.
C1_Witness ==
    /\ concurrency = 2
    /\ Cardinality(InFlight) = 2
    /\ \E f \in Candidates : pc[f] = "Discovered"

\* C2: no file of group i+1 has left Discovered before every file of group i
\* is terminal.
C2_Barrier ==
    \A f \in Candidates : \A g \in Candidates :
        (chunks # <<>> /\ GroupOf(g) = GroupOf(f) + 1 /\ Started(g))
            => Terminal(f)

\* C2 witness: a group with one Done and one Failed member is over and a file
\* of the next group has been started.
C2_Witness ==
    /\ chunks # <<>>
    /\ \E f \in Candidates : \E h \in Candidates : \E g \in Candidates :
        /\ GroupOf(f) = GroupOf(h)
        /\ pc[f] = "Failed"
        /\ pc[h] = "Done"
        /\ GroupOf(g) = GroupOf(f) + 1
        /\ Started(g)

\* C3: a failure while processing one file never prevents another file from
\* being started: once closeBundle has settled, no candidate is left that was
\* never started.
C3_FailureNeverBlocksOthers ==
    Settled => \A f \in Candidates : Started(f)

\* C4: processFile never rejects and closeBundle never rejects because of an
\* error raised while processing a file.
C4_ProcessFileNeverRejects ==
    /\ \A f \in Files : promise[f] # "rejected"
    /\ cb # "rejected"

\* C5: when closeBundle has resolved or rejected, every candidate is terminal.
C5_SettlesAfterAllTerminal ==
    Settled => \A f \in Candidates : Terminal(f)

\* C6: a file whose engine run failed keeps its original content at its
\* original path: the path is never deleted or written.
C6_EngineFailureLeavesOriginal ==
    \A f \in Candidates : error[f] = "ffmpeg" => fs[f] = Orig(f)

\* C7: once the run is over, every file that reached Done holds at its
\* original path the content the engine produced for it, and nothing is left
\* at its temp path.
C7_RoundTrip ==
    (Settled /\ InFlight = {}) =>
        \A f \in Candidates :
            pc[f] = "Done" => (fs[f] = Opt(f) /\ fs[tempOutputPath(f)] = Absent)

\* C8: replacement is atomic: in every state the original path of a candidate
\* holds the complete original or the complete optimized content (stated for
\* the candidates whose paths no other unit touches).
C8_AtomicReplace ==
    \A f \in Candidates : OwnsItsPaths(f) => fs[f] \in {Orig(f), Opt(f)}

CeilDiv(n, c) == (n + c - 1) \div c

RECURSIVE Flatten(_)
Flatten(seqs) == IF seqs = <<>> THEN <<>> ELSE Head(seqs) \o Flatten(Tail(seqs))

\* C9: n candidates and concurrency c >= 1 give ceil(n/c) groups, all of size
\* c but the last of size n - c*(ceil(n/c)-1); the groups concatenated are the
\* candidate list, so every candidate is in exactly one group.
C9_Partition ==
    cb = "partitioned" =>
        LET n == Len(videoFiles)
            c == concurrency
            k == Len(chunks)
        IN  /\ k = CeilDiv(n, c)
            /\ \A i \in 1..(k - 1) : Len(chunks[i]) = c
            /\ k >= 1 => Len(chunks[k]) = n - c * (k - 1)
            /\ Flatten(chunks) = videoFiles
            /\ \A f \in Candidates :
                   Cardinality({i \in 1..k : f \in Range(chunks[i])}) = 1

\* C9 witness: five candidates and concurrency 2 give groups of sizes 2, 2, 1.
C9_Witness ==
    /\ cb = "partitioned"
    /\ Len(videoFiles) = 5
    /\ concurrency = 2
    /\ [i \in 1..Len(chunks) |-> Len(chunks[i])] = <<2, 2, 1>>

\* the options key of each extension handed to getVideoOptions
ExtKey == (".mp4" :> ".mp4") @@ (".MP4" :> ".mp4") @@ (".webm" :> ".webm") @@
          (".mov" :> ".mov") @@ (".Avi" :> ".avi")

Follows(field, dflt) ==
    LET key == ExtKey[ext]
        override == key \in DOMAIN options /\ field \in DOMAIN options[key]
        global == field \in DOMAIN options
    IN  /\ override => resolved[field] = options[key][field]
        /\ (~override /\ global) => resolved[field] = options[field]
        /\ (~override /\ ~global) => resolved[field] = dflt

\* C10: quality, preset and mute each resolve to the override of the file's
\* lower-cased extension if present, else to the global option if present,
\* else to the default 18 / "medium" / false.
C10_Precedence ==
    resolved # EmptyObject =>
        /\ Follows("quality", 18)
        /\ Follows("preset", "medium")
        /\ Follows("mute", FALSE)
        /\ options = EmptyObject =>
               resolved = [quality |-> 18, preset |-> "medium", mute |-> FALSE]
        /\ options = [quality |-> 20] @@ (".mp4" :> [quality |-> 18]) =>
               /\ ext = ".mp4" => resolved.quality = 18
               /\ ext = ".webm" => resolved.quality = 20

\* C10 witness: global quality 20 and preset "fast" with an .mp4 override of
\* quality 18, resolved for the extension ".MP4".
C10_Witness ==
    /\ options = [quality |-> 20, preset |-> "fast"] @@ (".mp4" :> [quality |-> 18])
    /\ ext = ".MP4"
    /\ resolved = [quality |-> 18, preset |-> "fast", mute |-> FALSE]

\* the exclusion rule as specified: a pattern that starts with "." matches by
\* extension, ignoring the case of both sides; any other pattern matches as a
\* case-sensitive substring of the base name
MatchesPattern(name, pattern) ==
    IF startsWith(pattern, ".")
    THEN toLowerCase(extname(name)) = toLowerCase(pattern)
    ELSE includes(name, pattern)

MatchesAny(name, exclude) ==
    \E i \in 1..Len(exclude) : MatchesPattern(name, exclude[i])

HasVideoExtension(name) ==
    toLowerCase(extname(name)) \in {".mp4", ".webm", ".mov", ".avi"}

\* C11: isVideoFile excludes a file with a supported extension iff some
\* pattern matches it: a "."-pattern by extension ignoring the case of both
\* the extension and the pattern, any other pattern as a case-sensitive
\* substring of the base name.
C11_ExclusionRule ==
    (cb = "filtered" /\ HasVideoExtension(entryName)) =>
        (included <=> ~MatchesAny(entryName, excludeOf(options)))

\* the paths of the regular files below dir
FilesBelow(f, dir) ==
    {p \in Files : f[p] # Absent /\ startsWith(p, dir \o "/")}

\* C12: findVideoFiles returns, each exactly once, exactly the regular files
\* of the tree that have a supported extension (in any case) and match no
\* exclude pattern.
C12_ScanIsExact ==
    cb = "scanned" =>
        /\ Range(videoFiles) =
               {p \in FilesBelow(fs, distDir) :
                    /\ HasVideoExtension(basename(p))
                    /\ ~MatchesAny(basename(p), excludeOf(options))}
        /\ Cardinality(Range(videoFiles)) = Len(videoFiles)

\* there is nothing to optimize: configResolved never ran, the directory is
\* missing, or no file below it is a candidate
NothingToDo ==
    \/ distDir = ""
    \/ ~existsSyncDir(distDir)
    \/ ~\E p \in FilesBelow(fs, distDir) :
           /\ HasVideoExtension(basename(p))
           /\ ~MatchesAny(basename(p), excludeOf(options))

\* C13: when there is nothing to optimize, closeBundle resolves without
\* starting a processing unit (so without invoking the engine) and without
\* deleting or writing a file; findVideoFiles on a missing directory returns
\* the empty list.
C13_NothingToDoIsNoOp ==
    [][(cb = "init" /\ cb' # "init" /\ NothingToDo) =>
           /\ cb' = "resolved"
           /\ fs' = fs
           /\ \A f \in Files : pc'[f] = "None"
           /\ banner' = 0
           /\ findVideoFiles(fs, "m", excludeOf(options)) = <<>>]_vars

\* C13 witness: closeBundle has resolved on an existing directory that holds
\* only a file that is no candidate.
C13_Witness ==
    /\ cb = "resolved"
    /\ distDir = "o"
    /\ videoFiles = <<>>
    /\ fs["o/n.txt"] = Orig("o/n.txt")
    /\ \A f \in Files : pc[f] = "None"

\* C14: every candidate gets exactly one report: a terminal file has its one
\* success report iff it is Done and its one error report iff it is Failed,
\* and no file has both a success and an error report.
C14_OneReportPerFile ==
    \A f \in Candidates :
        /\ ~(reports[f].ok >= 1 /\ reports[f].err >= 1)
        /\ pc[f] = "Done" => reports[f] = [ok |-> 1, err |-> 0]
        /\ pc[f] = "Failed" => reports[f] = [ok |-> 0, err |-> 1]

\* C15: in a run that discovered a candidate, once closeBundle has settled the
\* completion banner has been written exactly once, and it is never written
\* before every candidate is terminal.
C15_BannerOnce ==
    /\ (Settled /\ Candidates # {}) => banner = 1
    /\ banner >= 1 => \A f \in Candidates : Terminal(f)

\* C20: the concurrency the scheduler partitions and runs the groups with is
\* an integer >= 1, whatever options.concurrency was.
C20_ConcurrencyPositive ==
    (cb # "init" /\ Candidates # {}) => concurrency >= 1

\* the lower-cased extension of each path handed to the engine
EngineExt ==
    ("o/a.mp4" :> ".mp4") @@ ("o/A.MP4" :> ".mp4") @@ ("o/b.webm" :> ".webm") @@
    ("o/b.WebM" :> ".webm") @@ ("o/c.mov" :> ".mov") @@ ("o/d.AVI" :> ".avi")

\* the mute value of an extension: per-extension, else global, else false
MuteOf(key) ==
    IF key \in DOMAIN options /\ "mute" \in DOMAIN options[key]
    THEN options[key]["mute"]
    ELSE IF "mute" \in DOMAIN options THEN options["mute"] ELSE FALSE

NoMuteOption ==
    /\ "mute" \notin DOMAIN options
    /\ \A k \in DOMAIN options \cap {".mp4", ".webm", ".mov", ".avi"} :
           "mute" \notin DOMAIN options[k]

\* C16: the engine is asked to drop the audio stream iff the mute value
\* resolved for the file's extension is true; without any mute option audio
\* is kept.
C16_MuteDropsAudio ==
    command # EmptyObject =>
        /\ command.noAudio <=> MuteOf(EngineExt[inputPath])
        /\ NoMuteOption => ~command.noAudio

\* C16 witness: global mute false, .webm override mute true, file b.WebM: the
\* audio is dropped.
C16_Witness ==
    /\ command # EmptyObject
    /\ inputPath = "o/b.WebM"
    /\ "mute" \in DOMAIN options /\ options["mute"] = FALSE
    /\ ".webm" \in DOMAIN options /\ options[".webm"] = [mute |-> TRUE]
    /\ command.noAudio

FormatName == (".mp4" :> "mp4") @@ (".webm" :> "webm") @@ (".mov" :> "mov") @@
              (".avi" :> "avi")

\* C17: the container format is the one the extension names, in any letter
\* case, the codec is libvpx-vp9 for .webm and libx264 otherwise, and the
\* output path is <path>.tmp<lower-cased ext>.
C17_FormatPreserved ==
    command # EmptyObject =>
        LET e == EngineExt[inputPath]
        IN  /\ command.input = inputPath
            /\ command.format = FormatName[e]
            /\ command.videoCodec = IF e = ".webm" THEN "libvpx-vp9" ELSE "libx264"
            /\ command.output = inputPath \o ".tmp" \o e

\* C17 witness: d.AVI is transcoded to avi at d.AVI.tmp.avi.
C17_Witness ==
    /\ command # EmptyObject
    /\ inputPath = "o/d.AVI"
    /\ command.format = "avi"
    /\ command.output = "o/d.AVI.tmp.avi"

QualityText == (18 :> "18") @@ (20 :> "20") @@ (30 :> "30")

\* C18: for .webm the flags are -crf <quality>, -b:v 0, -pix_fmt yuv420p and
\* -cpu-used 0 for preset "slow", 2 for "medium", 4 for any other preset.
C18_WebmFlags ==
    (command # EmptyObject /\ EngineExt[inputPath] = ".webm") =>
        LET speed == CASE resolved.preset = "slow" -> "0"
                       [] resolved.preset = "medium" -> "2"
                       [] OTHER -> "4"
        IN  command.outputOptions =
                <<"-crf", QualityText[resolved.quality], "-b:v", "0",
                  "-pix_fmt", "yuv420p", "-cpu-used", speed, "-y">>

\* C18 witness: an unknown preset gives -cpu-used 4 for a .webm file.
C18_Witness ==
    /\ command # EmptyObject
    /\ inputPath = "o/b.webm"
    /\ resolved.preset = "veryslow"
    /\ command.outputOptions[8] = "4"

HasFlag(flags, flag) == \E i \in 1..Len(flags) : flags[i] = flag
HasPair(flags, flag, value) ==
    \E i \in 1..(Len(flags) - 1) : flags[i] = flag /\ flags[i + 1] = value

\* C19: .mp4 has -crf, -preset, -pix_fmt yuv420p, -profile:v high, -level 4.0
\* and -movflags +faststart; .mov and .avi have the first three and none of
\* the other three; all four formats have -y.
C19_H264Flags ==
    command # EmptyObject =>
        LET e == EngineExt[inputPath]
            flags == command.outputOptions
            common == /\ HasPair(flags, "-crf", QualityText[resolved.quality])
                      /\ HasPair(flags, "-preset", resolved.preset)
                      /\ HasPair(flags, "-pix_fmt", "yuv420p")
        IN  /\ HasFlag(flags, "-y")
            /\ e = ".mp4" =>
                   /\ common
                   /\ HasPair(flags, "-profile:v", "high")
                   /\ HasPair(flags, "-level", "4.0")
                   /\ HasPair(flags, "-movflags", "+faststart")
            /\ e \in {".mov", ".avi"} =>
                   /\ common
                   /\ ~HasFlag(flags, "-profile:v")
                   /\ ~HasFlag(flags, "-level")
                   /\ ~HasFlag(flags, "-movflags")

\* C19 witness: a .mov file with seven flags, the last of them -y.
C19_Witness ==
    /\ command # EmptyObject
    /\ inputPath = "o/c.mov"
    /\ Len(command.outputOptions) = 7
    /\ command.outputOptions[7] = "-y"

\* the per-file state a position of processFile belongs to; the catch block
\* belongs to Failed, its report being written when the block is entered
StateOf(label) ==
    CASE label = "None" -> "None"
      [] label = "Discovered" -> "Discovered"
      [] label \in {"statIn", "ffmpeg", "statOut"} -> "Transcoding"
      [] label \in {"unlinkOrig", "readTemp", "writeOrig", "unlinkTemp"} -> "Swapping"
      [] label = "Done" -> "Done"
      [] label \in {"cleanup", "Failed"} -> "Failed"

\* the moves of one continuation; Transcoded is passed inside the continuation
\* that reads the size of the temp file and starts the first delete, and
\* Discovered inside the one that scans and starts the first group
AllowedMoves ==
    {<<"None", "Discovered">>, <<"None", "Transcoding">>,
     <<"Discovered", "Transcoding">>, <<"Transcoding", "Swapping">>,
     <<"Swapping", "Done">>, <<"Transcoding", "Failed">>,
     <<"Swapping", "Failed">>}

\* C21: each candidate moves only along Discovered -> Transcoding ->
\* Transcoded -> Swapping -> Done, or from Transcoding or Swapping to Failed;
\* nothing leaves Done or Failed, and the engine is invoked at most once per
\* candidate: a unit is started only from Discovered and reaches the engine
\* only from its first size read.
C21_StateMachine ==
    [][\A f \in Files :
        /\ StateOf(pc[f]) # StateOf(pc'[f]) =>
               <<StateOf(pc[f]), StateOf(pc'[f])>> \in AllowedMoves
        /\ (pc'[f] = "statIn" /\ pc[f] # "statIn") =>
               pc[f] \in {"None", "Discovered"}
        /\ (pc'[f] = "ffmpeg" /\ pc[f] # "ffmpeg") => pc[f] = "statIn"]_vars

\* C21 witness: one candidate is Done, one failed while swapping and one
\* failed while transcoding.
C21_Witness ==
    \E f \in Candidates : \E g \in Candidates : \E h \in Candidates :
        /\ pc[f] = "Done"
        /\ pc[g] = "Failed" /\ StateOf(error[g]) = "Swapping"
        /\ pc[h] = "Failed" /\ StateOf(error[h]) = "Transcoding"

\* C22: the original of a candidate is deleted only by its own unit, after
\* the engine reported success and the temp file's size was read; it is
\* written only after that delete, the temp file is deleted last, and once a
\* step of the unit has failed the original is not touched again.
C22_ReplacementOrder ==
    [][\A f \in Candidates :
        /\ (fs[f] # Absent /\ fs'[f] = Absent) =>
               (pc[f] = "unlinkOrig" /\ "optimizedSize" \in DOMAIN sizes[f])
        /\ (fs'[f] # Absent /\ fs'[f] # fs[f]) =>
               (pc[f] = "writeOrig" /\ fs[f] = Absent)
        /\ pc'[f] = "Done" => fs[f] = fs'[f]
        /\ error[f] # "none" => fs'[f] = fs[f]]_vars

\* C23: a file that ended in Failed has no file at its temp path.
C23_FailedLeavesNoTemp ==
    \A f \in Candidates :
        pc[f] = "Failed" => fs[tempOutputPath(f)] = Absent

\* C24: the temp paths of distinct candidates are distinct and no candidate's
\* temp path is the original path of another candidate of the same scan.
C24_ExclusivePaths ==
    \A f \in Candidates : \A g \in Candidates :
        f # g => (tempOutputPath(f) # tempOutputPath(g) /\ tempOutputPath(f) # g)

\* C25: with concurrency >= 1, once closeBundle runs it eventually resolves
\* with every candidate terminal; and while an engine invocation has not
\* completed, closeBundle has not settled and no file of a later group is
\* started.
C25_Liveness ==
    /\ (cb = "running" /\ concurrency >= 1) ~>
           (cb = "resolved" /\ \A f \in Candidates : Terminal(f))
    /\ [](\A f \in Candidates : pc[f] = "ffmpeg" =>
              /\ ~Settled
              /\ \A g \in Candidates : GroupOf(g) > GroupOf(f) => ~Started(g))

\* C26: for an extension outside {.mp4, .webm, .mov, .avi} getFormatConfig
\* returns the configuration of .avi: codec libx264, format "avi" and only the
\* -crf/-preset/-pix_fmt/-y flags.
C26_UnknownExtensionIsAvi ==
    (config # EmptyObject /\
     toLowerCase(ext) \notin {".mp4", ".webm", ".mov", ".avi"}) =>
        config = [codec |-> "libx264", format |-> "avi",
                  options |-> <<"-crf", QualityText[resolved.quality],
                                "-preset", resolved.preset,
                                "-pix_fmt", "yuv420p", "-y">>]

\* C27: the engine is invoked only after the original's size was read, and
\* never after that read failed; optimizeVideo settles once: it resolves with
\* the original size and the size of the temp file read after the end event,
\* or rejects on the failed size read, the engine error or the failed read of
\* the temp file's size.
C27_OptimizeVideoSettlesOnce ==
    [][\A f \in Files :
        /\ (pc'[f] = "ffmpeg" /\ pc[f] # "ffmpeg") =>
               /\ pc[f] = "statIn" /\ fs[f] # Absent
               /\ sizes'[f] = [originalSize |-> Len(fs[f])]
        /\ error[f] = "statIn" =>
               (pc'[f] \in {"cleanup", "Failed"} /\ sizes'[f] = EmptyObject)
        /\ (pc[f] = "statOut" /\ pc'[f] = "unlinkOrig") =>
               /\ fs[tempOutputPath(f)] # Absent
               /\ sizes'[f] = [originalSize |-> sizes[f].originalSize,
                               optimizedSize |-> Len(fs[tempOutputPath(f)])]
               /\ error'[f] = "none"
        /\ (StateOf(pc[f]) = "Transcoding" /\ StateOf(pc'[f]) = "Failed") =>
               /\ error'[f] = pc[f]
               /\ "optimizedSize" \notin DOMAIN sizes'[f]
        /\ "optimizedSize" \in DOMAIN sizes[f] =>
               (sizes'[f] = sizes[f] /\ error'[f] \notin {"statIn", "ffmpeg", "statOut"})
        /\ error[f] \in {"statIn", "ffmpeg", "statOut"} =>
               (sizes'[f] = sizes[f] /\ error'[f] = error[f])]_vars

\* C27 witness: one invocation resolved with both sizes and another was
\* rejected because the temp file's size could not be read.
C27_Witness ==
    \E f \in Candidates : \E g \in Candidates :
        /\ sizes[f] = [originalSize |-> Len(Orig(f)), optimizedSize |-> Len(Opt(f))]
        /\ error[g] = "statOut"
        /\ "optimizedSize" \notin DOMAIN sizes[g]

\* the awaited operations of processFile, in program order
StepOrder ==
    ("statIn" :> 1) @@ ("ffmpeg" :> 2) @@ ("statOut" :> 3) @@
    ("unlinkOrig" :> 4) @@ ("readTemp" :> 5) @@ ("writeOrig" :> 6) @@
    ("unlinkTemp" :> 7) @@ ("none" :> 8)

\* the file system after the unit of f has run alone on x with the outcomes
\* recorded for it: the step that failed, whether that step left a partial
\* file, and whether the unlink of the catch block succeeded
ReplayUnit(x, f) ==
    LET t == tempOutputPath(f)
        k == StepOrder[error[f]]
        x1 == IF k > 2 THEN [x EXCEPT ![t] = Opt(f)]
              ELSE IF k = 2 /\ torn[f] THEN [x EXCEPT ![t] = Partial(f)]
              ELSE x
        x2 == IF k > 4 THEN [x1 EXCEPT ![f] = Absent] ELSE x1
        x3 == IF k > 6 THEN [x2 EXCEPT ![f] = x2[t]]
              ELSE IF k = 6 /\ torn[f] THEN [x2 EXCEPT ![f] = Partial(f)]
              ELSE x2
        x4 == IF k > 7 THEN [x3 EXCEPT ![t] = Absent] ELSE x3
    IN  IF ~Started(f) THEN x
        ELSE IF k <= 7 /\ x4[t] # Absent /\ promise[f] = "fulfilled"
        THEN [x4 EXCEPT ![t] = Absent]
        ELSE x4

\* the units of videoFiles[i..] replayed one after the other in scanner order
RECURSIVE ReplayFrom(_, _)
ReplayFrom(x, i) ==
    IF i > Len(videoFiles) THEN x
    ELSE ReplayFrom(ReplayUnit(x, videoFiles[i]), i + 1)

\* C28: for a fixed candidate list, fixed options and fixed outcomes of every
\* engine and file operation, the final content of every path is the same for
\* every interleaving: it is the content left by the units run one after the
\* other in scanner order with those outcomes.
C28_InterleavingIndependence ==
    (Settled /\ InFlight = {}) => fs = ReplayFrom(fs0, 1)

C30_Frame ==
    cb # "init" =>
        \A p \in Files \ Candidates : fs0[p] # Absent => fs[p] = fs0[p]

\* the units whose optimizeVideo call has resolved its configuration
Configured == {f \in Files : cfgs[f] # EmptyObject}

\* C31: no step changes the options object; two resolutions for the same
\* extension return equal options, codec, format and flags; each call returns
\* a flag list of its own, and a list that was returned is never changed.
C31_OptionsReadOnly ==
    /\ [][options' = options]_vars
    /\ [][\A a \in DOMAIN heap : a \in DOMAIN heap' /\ heap'[a] = heap[a]]_vars
    /\ [](\A f \in Configured : \A g \in Configured :
            /\ f # g => cfgs[f].cfg.options # cfgs[g].cfg.options
            /\ LowerExts[f] = LowerExts[g] =>
                   /\ cfgs[f].options = cfgs[g].options
                   /\ cfgs[f].cfg.codec = cfgs[g].cfg.codec
                   /\ cfgs[f].cfg.format = cfgs[g].cfg.format
                   /\ heap[cfgs[f].cfg.options] = heap[cfgs[g].cfg.options])

\* C31 witness: two .mp4 candidates of one group hold equal flag lists of
\* thirteen elements at different addresses.
C31_Witness ==
    /\ {"o/a.mp4", "o/a.mp4.tmp.mp4"} \subseteq Configured
    /\ cfgs["o/a.mp4"].cfg.options # cfgs["o/a.mp4.tmp.mp4"].cfg.options
    /\ Len(heap[cfgs["o/a.mp4"].cfg.options]) = 13
    /\ heap[cfgs["o/a.mp4"].cfg.options] = heap[cfgs["o/a.mp4.tmp.mp4"].cfg.options]

====
